---- MODULE Spec2Model ----
(***************************************************************************)
(* State-machine model of the download session logic of main.py:           *)
(* the YouTubeDownloader widget (UI thread handlers), the Kivy Clock       *)
(* queue, and the download_video worker threads with their progress_hook.  *)
(***************************************************************************)
EXTENDS Integers, Sequences, FiniteSets, TLC

\* ---------------------------------------------------------------- bounds
\* Worker threads spawned by start_download in one run.
MaxStarts == 2
\* Calls of progress_hook the engine makes in one run.
MaxTicks == 2
\* Edits of the URL field in one run.
MaxUrlEdits == 2
\* Changes of the audio toggle and the quality spinner in one run.
MaxToggles == 1
\* Clicks on the pause/resume control in one run.
MaxPauseClicks == 1
\* Cancel popups opened in one run.
MaxPopups == 2
\* Android intents (notification actions) delivered in one run.
MaxIntents == 1

Workers == 1..MaxStarts

\* ------------------------------------------------------------ data sets
NoUrl == ""
BadUrl == "not a url"
VideoUrl == "https://youtu.be/abc123"
PlaylistUrl == "https://www.youtube.com/playlist?list=PL1"
Urls == {NoUrl, BadUrl, VideoUrl, PlaylistUrl}

Qualities == {"max", "720"}

AudioDir == "Audio"
VideoDir == "Video"
NoDir == "None"

\* Names of files in the download folders: the partial file the engine is
\* writing, its .ytdl and fragment companions, a finished download and a file
\* the application did not create.
PartName == "clip.mp4.part"
FileNames ==
    {PartName, "clip.mp4.ytdl", "clip.mp4.part-Frag3", "clip.mp4", "notes.txt"}

\* glob.glob over '*': every name in the folder.
MatchesAll(name) == name \in FileNames

\* glob.glob over '*.part', '*.ytdl' and '*.part-Frag*': the names it returns.
Matches(name) == name \in {PartName, "clip.mp4.ytdl", "clip.mp4.part-Frag3"}

\* The file thread w writes in folder dir.
PartFile(dir, w) == <<dir, w, PartName>>

\* urlparse(url).netloc for the URLs of the model.
Netloc(url) ==
    CASE url = VideoUrl -> "youtu.be"
      [] url = PlaylistUrl -> "www.youtube.com"
      [] OTHER -> ""

\* validate_url: a non-blank URL whose netloc contains youtube.com or youtu.be.
validate_url(url) ==
    IF url = NoUrl
    THEN FALSE
    ELSE Netloc(url) \in {"youtu.be", "www.youtube.com", "youtube.com"}

\* is_playlist: 'playlist' in url.lower() or 'list=' in url.
is_playlist(url) == url = PlaylistUrl

\* ------------------------------------------------------ pure functions
RECURSIVE GCD(_, _)
GCD(a, b) == IF b = 0 THEN a ELSE GCD(b, a % b)

\* An exact non-negative rational, in lowest terms.
Frac(num, den) ==
    LET g == GCD(num, den) IN [n |-> num \div g, d |-> den \div g]

FracLeq(x, y) == x.n * y.d <= y.n * x.d

Zero == Frac(0, 1)
Hundred == Frac(100, 1)

Digit(k) ==
    CASE k = 0 -> "0" [] k = 1 -> "1" [] k = 2 -> "2" [] k = 3 -> "3"
      [] k = 4 -> "4" [] k = 5 -> "5" [] k = 6 -> "6" [] k = 7 -> "7"
      [] k = 8 -> "8" [] k = 9 -> "9"

RECURSIVE NatStr(_)
NatStr(k) == IF k < 10 THEN Digit(k) ELSE NatStr(k \div 10) \o Digit(k % 10)

\* num * m / den rounded to an integer, ties to even: what Python's float
\* formatting does with an exactly represented value (den is a power of two
\* and a multiple of 1024, so num / den is exact). The remainder is split at
\* 1024 so that no intermediate value leaves the 32-bit range.
RoundHalfEven(num, m, den) ==
    LET q == num \div den
        r == num % den
        den1 == den \div 1024
        a == (r \div 1024) * m + ((r % 1024) * m) \div 1024
        e == ((r % 1024) * m) % 1024
        t == q * m + a \div den1
        rest == (a % den1) * 1024 + e
    IN  IF rest > den1 * 512 THEN t + 1
        ELSE IF rest = den1 * 512 /\ t % 2 = 1 THEN t + 1
        ELSE t

\* f'{num / den:.1f}'
Fixed1(num, den) ==
    LET t == RoundHalfEven(num, 10, den)
    IN  NatStr(t \div 10) \o "." \o Digit(t % 10)

\* f'{num / den:.2f}'
Fixed2(num, den) ==
    LET t == RoundHalfEven(num, 100, den)
    IN  NatStr(t \div 100) \o "." \o Digit((t \div 10) % 10) \o Digit(t % 10)

\* format_size with the unit thresholds compared with <= instead of <.
format_size_inclusive(b) ==
    IF b <= 0 THEN "0 KB"
    ELSE IF b <= 1024 * 1024 THEN Fixed1(b, 1024) \o " KB"
    ELSE IF b <= 1024 * 1024 * 1024 THEN Fixed1(b, 1024 * 1024) \o " MB"
    ELSE Fixed2(b, 1024 * 1024 * 1024) \o " GB"

\* format_size(bytes_count)
format_size(b) ==
    IF b <= 0 THEN "0 KB"
    ELSE IF b < 1024 * 1024 THEN Fixed1(b, 1024) \o " KB"
    ELSE IF b < 1024 * 1024 * 1024 THEN Fixed1(b, 1024 * 1024) \o " MB"
    ELSE Fixed2(b, 1024 * 1024 * 1024) \o " GB"

\* ------------------------------------------------------ engine events
\* A callback handed to Clock.schedule_once(..., 0): the function, its numeric
\* argument, its string argument and the worker that scheduled it (0: none).
Ev(fn, n, s, w) == [fn |-> fn, n |-> n, s |-> s, w |-> w]

\* The progress dictionaries d the engine passes to progress_hook.
Samples ==
    << [status |-> "downloading", downloaded_bytes |-> 512000,
        total_bytes |-> 1048576, total_bytes_estimate |-> 0,
        filename |-> "clip.mp4"],
       [status |-> "downloading", downloaded_bytes |-> 4096,
        total_bytes |-> 0, total_bytes_estimate |-> 0,
        filename |-> ""],
       [status |-> "finished", downloaded_bytes |-> 1048576,
        total_bytes |-> 1048576, total_bytes_estimate |-> 0,
        filename |-> "clip.mp4"],
       \* a malformed sample: the dictionary has no 'status' key
       [downloaded_bytes |-> 4096,
        total_bytes |-> 1048576, total_bytes_estimate |-> 0,
        filename |-> "clip.mp4"] >>


\* d.get('total_bytes') or d.get('total_bytes_estimate', 0)
TotalOf(d) == IF d.total_bytes # 0 THEN d.total_bytes ELSE d.total_bytes_estimate

\* The callbacks of one call of progress_hook, with the test of the total
\* (if total:) left out of the percent: an unknown total publishes 0.
HookEventsUnguarded(d, w) ==
    IF d.status = "downloading"
    THEN LET total == TotalOf(d)
             size_str ==
                 IF total # 0
                 THEN format_size(d.downloaded_bytes) \o " / " \o format_size(total)
                 ELSE IF d.downloaded_bytes # 0
                 THEN format_size(d.downloaded_bytes)
                 ELSE ""
         IN  <<Ev("download_progress",
                  IF total # 0 THEN Frac(d.downloaded_bytes * 100, total) ELSE Zero,
                  "", w)>>
             \o (IF size_str # ""
                 THEN <<Ev("download_size", Zero, size_str, w)>>
                 ELSE <<>>)
             \o (IF d.filename # ""
                 THEN <<Ev("current_item", Zero, d.filename, w)>>
                 ELSE <<>>)
    ELSE IF d.status = "finished"
    THEN <<Ev("download_progress", Hundred, "", w)>>
    ELSE <<>>

\* The callbacks one call of progress_hook schedules for sample d
\* (the try block of the hook), in the order it schedules them.
HookEvents(d, w) ==
    IF d.status = "downloading"
    THEN LET total == TotalOf(d)
             size_str ==
                 IF total # 0
                 THEN format_size(d.downloaded_bytes) \o " / " \o format_size(total)
                 ELSE IF d.downloaded_bytes # 0
                 THEN format_size(d.downloaded_bytes)
                 ELSE ""
         IN  (IF total # 0
              THEN <<Ev("download_progress", Frac(d.downloaded_bytes * 100, total), "", w)>>
              ELSE <<>>)
             \o (IF size_str # ""
                 THEN <<Ev("download_size", Zero, size_str, w)>>
                 ELSE <<>>)
             \o (IF d.filename # ""
                 THEN <<Ev("current_item", Zero, d.filename, w)>>
                 ELSE <<>>)
    ELSE IF d.status = "finished"
    THEN <<Ev("download_progress", Hundred, "", w)>>
    ELSE <<>>

\* The DownloadError messages the engine raises, and the except clause's
\* classification of them into the message shown to the user.
DownloadErrors == {"ERROR: Video unavailable"}

\* Any other exception the engine lets through, as type(e).__name__: str(e).
UnexpectedErrors == {"KeyError: 'title'"}

AllErrors == DownloadErrors \cup UnexpectedErrors

\* The DownloadError of an engine call whose URL the engine cannot resolve.
InvalidUrlError == "ERROR: is not a valid URL"

\* s[:n]
Truncate(s, n) == IF Len(s) > n THEN SubSeq(s, 1, n) ELSE s

UserMsg(error_msg) ==
    IF error_msg = "ERROR: Video unavailable"
    THEN "Video is unavailable or private"
    ELSE Truncate(error_msg, 80)

FFMPEG_INSTALL_HELP ==
    "ffmpeg not found. Please install it:\n"
    \o "  Windows : winget install ffmpeg   (or: choco install ffmpeg)\n"
    \o "  Ubuntu  : sudo apt install ffmpeg\n"
    \o "  macOS   : brew install ffmpeg\n"
    \o "Then restart the app."


\* ----------------------------------------------------------------- runs
\* What the environment does in one run: the platform, how many times the
\* user and the engine perform each kind of operation, the texts the user
\* types into the URL field, and the samples and errors the engine produces.

\* Two sessions: start_download is called again, before or after a cancel.
Restart ==
    [android |-> FALSE, starts |-> MaxStarts, ticks |-> MaxTicks - 1,
     urls |-> MaxUrlEdits, toggles |-> MaxToggles - 1,
     pauses |-> MaxPauseClicks, popups |-> MaxPopups - 1, intents |-> 0,
     texts |-> {VideoUrl}, samples |-> {1}, errors |-> {}]

\* One session with every input, sample and error.
Session(a) ==
    [android |-> a, starts |-> MaxStarts - 1, ticks |-> MaxTicks,
     urls |-> MaxUrlEdits - 1, toggles |-> MaxToggles,
     pauses |-> MaxPauseClicks, popups |-> MaxPopups - 1, intents |-> 0,
     texts |-> Urls, samples |-> 1..Len(Samples), errors |-> AllErrors]

\* One session on Android, cancelled from the popup and from the notification.
Cancels ==
    [android |-> TRUE, starts |-> MaxStarts - 1, ticks |-> MaxTicks - 1,
     urls |-> MaxUrlEdits - 1, toggles |-> MaxToggles - 1,
     pauses |-> MaxPauseClicks, popups |-> MaxPopups, intents |-> MaxIntents,
     texts |-> {VideoUrl}, samples |-> {1}, errors |-> {}]

\* One session whose inputs the user keeps editing after Start.
Inputs ==
    [android |-> FALSE, starts |-> MaxStarts - 1, ticks |-> MaxTicks - 1,
     urls |-> MaxUrlEdits, toggles |-> MaxToggles,
     pauses |-> MaxPauseClicks - 1, popups |-> MaxPopups - 2, intents |-> 0,
     texts |-> {BadUrl, VideoUrl, PlaylistUrl}, samples |-> {2}, errors |-> {}]

Runs ==
    {Restart, Cancels, Inputs} \cup {Session(a) : a \in BOOLEAN}

\* ------------------------------------------------------------ variables
VARIABLES
    \* Kivy properties of YouTubeDownloader
    url_text, quality_selected, audio_only, is_loading, is_paused,
    error_message, success_message, download_progress, current_item,
    total_items, download_size,
    \* instance attributes
    pause_event, cancel_flag, current_output_path, postprocessing, last_total,
    pending_shared_url,
    \* platform the build runs on (ANDROID); the notification helper exists iff TRUE
    android,
    \* UI infrastructure: the open cancel popup, the Clock's 0-delay queue and
    \* its delayed timers
    popup_open, clock, timers,
    \* download_video threads and the partial files on disk
    worker, parts,
    \* history: what each session was started with and whether it was cancelled;
    \* the operations of each kind the run has left
    hist, budget

ui_props == <<url_text, quality_selected, audio_only, is_loading, is_paused,
              error_message, success_message, download_progress, current_item,
              total_items, download_size>>
inst_vars == <<pause_event, cancel_flag, current_output_path, pending_shared_url, postprocessing,
               last_total>>
vars == <<ui_props, inst_vars, android, popup_open, clock, timers, worker,
          parts, hist, budget>>

\* ------------------------------------------------------- worker records
\* A download_video thread: where it is, its local output_path, the URL it
\* handed to the engine call in progress, the sample of the progress_hook call
\* in progress.
IdleWorker ==
    [pc |-> "idle", output_path |-> NoDir, url |-> "none", d |-> 0]

DoneWorker == [IdleWorker EXCEPT !.pc = "done"]

\* A session's history while its worker lives: the inputs start_download saw,
\* and whether a cancel handler ran since ("no", "yes", or "blocked" when the
\* worker was then waiting in the hook's pause loop).
NoHist == [url |-> "none", audio |-> FALSE, quality |-> "none", cancel |-> "no"]

Alive(w) == worker[w].pc \notin {"idle", "done"}
AliveWorkers == {w \in Workers : Alive(w)}

\* The exceptions the engine call in progress in worker w can raise.
EngineErrors(w) ==
    IF validate_url(worker[w].url) THEN budget.errors ELSE {InvalidUrlError}

\* The thread object the next threading.Thread(...) call creates.
NextWorker ==
    CHOOSE w \in Workers :
        /\ worker[w].pc = "idle"
        /\ \A v \in Workers : worker[v].pc = "idle" => w <= v

\* ----------------------------------------------------------------- Init
\* YouTubeDownloader.__init__ and the class-level property defaults.
Init ==
    /\ url_text = NoUrl
    /\ quality_selected = "max"
    /\ audio_only = FALSE
    /\ is_loading = FALSE
    /\ is_paused = FALSE
    /\ error_message = ""
    /\ success_message = ""
    /\ download_progress = Zero
    /\ current_item = ""
    /\ total_items = 0
    /\ download_size = ""
    /\ pause_event = TRUE
    /\ cancel_flag = FALSE
    /\ current_output_path = NoDir
    /\ pending_shared_url = "none"
    /\ postprocessing = FALSE
    /\ last_total = 0
    /\ \E run \in Runs :
        /\ android = run.android
        /\ budget = [k \in DOMAIN run \ {"android"} |-> run[k]]
    /\ popup_open = FALSE
    /\ clock = <<>>
    /\ timers = [cleanup |-> 0, clear_success |-> 0,
                 read_intent |-> 0]
    /\ worker = [w \in Workers |-> IdleWorker]
    /\ parts = {}
    /\ hist = [w \in Workers |-> NoHist]


\* ------------------------------------------------------------- helpers
Schedule(q, evs) == q \o evs

\* The app is running: no exception has escaped a callback of the Clock. Kivy's
\* event loop stops on such an exception and App.run() re-raises it; the
\* process ends, and the daemon download threads with it. The callback that
\* raised stays at the head of the queue, marked with the exception.
Running ==
    IF clock = <<>> THEN TRUE ELSE Head(clock).fn # "AttributeError"

\* A cancel handler ran: every live worker's session is now a cancelled one.
MarkCancel(h) ==
    [w \in Workers |->
        IF Alive(w)
        THEN [h[w] EXCEPT !.cancel =
                 IF ~pause_event /\ worker[w].pc = "hook_wait" THEN "blocked"
                 ELSE IF @ = "blocked" THEN "blocked"
                 ELSE "yes"]
        ELSE h[w]]

\* --------------------------------------------------- UI thread: inputs
\* on_url_change(text)
on_url_change(text) ==
    /\ Running
    /\ ~popup_open
    /\ budget.urls > 0
    /\ text # url_text
    /\ url_text' = text
    /\ error_message' = ""
    /\ success_message' = ""
    /\ budget' = [budget EXCEPT !.urls = @ - 1]
    /\ UNCHANGED <<quality_selected, audio_only, is_loading, is_paused,
                   download_progress, current_item, total_items, download_size,
                   inst_vars, android, popup_open, clock, timers, worker, parts,
                   hist>>

\* on_quality_select(quality)
on_quality_select(quality) ==
    /\ Running
    /\ ~popup_open
    /\ budget.toggles > 0
    /\ quality # quality_selected
    /\ IF ~audio_only
       THEN quality_selected' = quality /\ error_message' = ""
       ELSE UNCHANGED <<quality_selected, error_message>>
    /\ budget' = [budget EXCEPT !.toggles = @ - 1]
    /\ UNCHANGED <<url_text, audio_only, is_loading, is_paused, success_message,
                   download_progress, current_item, total_items, download_size,
                   inst_vars, android, popup_open, clock, timers, worker, parts,
                   hist>>

\* on_audio_toggle(active)
on_audio_toggle(active) ==
    /\ Running
    /\ ~popup_open
    /\ budget.toggles > 0
    /\ active # audio_only
    /\ audio_only' = active
    /\ error_message' = ""
    /\ quality_selected' = IF active THEN "max" ELSE quality_selected
    /\ budget' = [budget EXCEPT !.toggles = @ - 1]
    /\ UNCHANGED <<url_text, is_loading, is_paused, success_message,
                   download_progress, current_item, total_items, download_size,
                   inst_vars, android, popup_open, clock, timers, worker, parts,
                   hist>>

\* ------------------------------------------------ UI thread: the session
\* start_download with self._cancel_flag = False placed before the URL test.
start_download_invalid_resets_flag ==
    /\ Running
    /\ ~popup_open
    /\ ~validate_url(url_text)
    /\ error_message' = "Please enter a valid YouTube URL"
    /\ success_message' = ""
    /\ cancel_flag' = FALSE
    /\ UNCHANGED <<url_text, quality_selected, audio_only, is_loading, is_paused,
                   download_progress, current_item, total_items, download_size,
                   pause_event, current_output_path, pending_shared_url, postprocessing, last_total,
                   android, popup_open, clock, timers, worker, parts, hist,
                   budget>>

\* start_download, the branch taken when validate_url fails.
start_download_invalid ==
    /\ Running
    /\ ~popup_open
    /\ ~validate_url(url_text)
    /\ error_message' = "Please enter a valid YouTube URL"
    /\ success_message' = ""
    /\ UNCHANGED <<url_text, quality_selected, audio_only, is_loading, is_paused,
                   download_progress, current_item, total_items, download_size,
                   inst_vars, android, popup_open, clock, timers, worker, parts,
                   hist, budget>>

\* start_download with the assignment self._cancel_flag = False left out.
start_download_keeps_cancel_flag ==
    /\ Running
    /\ ~popup_open
    /\ budget.starts > 0
    /\ validate_url(url_text)
    /\ LET w == NextWorker IN
        /\ error_message' = ""
        /\ success_message' = ""
        /\ pause_event' = TRUE
        /\ last_total' = 0
        /\ is_loading' = TRUE
        /\ is_paused' = FALSE
        /\ download_progress' = Zero
        /\ download_size' = ""
        /\ total_items' = 0
        /\ worker' = [worker EXCEPT ![w] = [IdleWorker EXCEPT !.pc = "begin"]]
        /\ hist' = [hist EXCEPT ![w] =
                       [NoHist EXCEPT !.url = url_text, !.audio = audio_only,
                                      !.quality = quality_selected]]
        /\ budget' = [budget EXCEPT !.starts = @ - 1]
    /\ UNCHANGED <<url_text, quality_selected, audio_only, current_item,
                   cancel_flag, current_output_path, pending_shared_url, postprocessing, android,
                   popup_open, clock, timers, parts>>

\* start_download, the branch that spawns the download_video thread.
start_download_valid ==
    /\ Running
    /\ ~popup_open
    /\ budget.starts > 0
    /\ validate_url(url_text)
    /\ LET w == NextWorker IN
        /\ error_message' = ""
        /\ success_message' = ""
        /\ cancel_flag' = FALSE
        /\ pause_event' = TRUE
        /\ last_total' = 0
        /\ is_loading' = TRUE
        /\ is_paused' = FALSE
        /\ download_progress' = Zero
        /\ download_size' = ""
        /\ total_items' = 0
        /\ worker' = [worker EXCEPT ![w] = [IdleWorker EXCEPT !.pc = "begin"]]
        /\ hist' = [hist EXCEPT ![w] =
                       [NoHist EXCEPT !.url = url_text, !.audio = audio_only,
                                      !.quality = quality_selected]]
        /\ budget' = [budget EXCEPT !.starts = @ - 1]
    /\ UNCHANGED <<url_text, quality_selected, audio_only, current_item,
                   current_output_path, pending_shared_url, postprocessing, android, popup_open,
                   clock, timers, parts>>

start_download == start_download_invalid \/ start_download_valid

\* on_pause_resume_click
on_pause_resume_click ==
    /\ Running
    /\ ~popup_open
    /\ budget.pauses > 0
    /\ IF is_paused
       THEN is_paused' = FALSE /\ pause_event' = TRUE
       ELSE is_paused' = TRUE /\ pause_event' = FALSE
    /\ budget' = [budget EXCEPT !.pauses = @ - 1]
    /\ UNCHANGED <<url_text, quality_selected, audio_only, is_loading,
                   error_message, success_message, download_progress,
                   current_item, total_items, download_size, cancel_flag,
                   current_output_path, pending_shared_url, postprocessing, last_total, android,
                   popup_open, clock, timers, worker, parts, hist>>

\* on_cancel_click: opens the modal confirmation popup.
on_cancel_click ==
    /\ Running
    /\ ~popup_open
    /\ budget.popups > 0
    /\ popup_open' = TRUE
    /\ budget' = [budget EXCEPT !.popups = @ - 1]
    /\ UNCHANGED <<ui_props, inst_vars, android, clock, timers, worker, parts,
                   hist>>

\* The popup's 'No' button: popup.dismiss().
popup_no ==
    /\ Running
    /\ popup_open
    /\ popup_open' = FALSE
    /\ UNCHANGED <<ui_props, inst_vars, android, clock, timers, worker, parts,
                   hist, budget>>

\* _reset_download_state, followed by scheduling _cleanup_part_files in 1.5 s:
\* the common tail of _confirm_cancel and _handle_cancel_action.
CancelBody ==
    /\ cancel_flag' = TRUE
    /\ pause_event' = TRUE
    /\ is_loading' = FALSE
    /\ is_paused' = FALSE
    /\ download_progress' = Zero
    /\ download_size' = ""
    /\ current_item' = ""
    /\ error_message' = ""
    /\ success_message' = ""
    /\ postprocessing' = FALSE
    /\ url_text' = NoUrl
    /\ timers' = [timers EXCEPT !.cleanup = @ + 1]
    /\ hist' = MarkCancel(hist)
    /\ UNCHANGED <<quality_selected, audio_only, total_items,
                   current_output_path, pending_shared_url, last_total, android, worker, parts>>

\* _confirm_cancel(popup): the popup's 'Yes, Cancel' button.
confirm_cancel ==
    /\ Running
    /\ popup_open
    /\ popup_open' = FALSE
    /\ CancelBody
    /\ UNCHANGED budget
    /\ UNCHANGED clock


\* _handle_cancel_action: the notification's cancel action, run by the Clock.
handle_cancel_action ==
    /\ clock # <<>>
    /\ Head(clock).fn = "_handle_cancel_action"
    /\ clock' = Tail(clock)
    /\ IF ~is_loading
       THEN UNCHANGED <<ui_props, inst_vars, android, timers, worker, parts,
                        hist, budget>>
       ELSE CancelBody /\ UNCHANGED budget
    /\ UNCHANGED popup_open

\* on_new_intent with action org.ytdl.ytdlapp.CANCEL, on the Android thread.
on_new_intent_cancel ==
    /\ Running
    /\ android
    /\ budget.intents > 0
    /\ clock' = Schedule(clock, <<Ev("_handle_cancel_action", Zero, "", 0)>>)
    /\ budget' = [budget EXCEPT !.intents = @ - 1]
    /\ UNCHANGED <<ui_props, inst_vars, android, popup_open, timers, worker,
                   parts, hist>>

\* _handle_pause_action: the notification's pause action, run by the Clock.
\* With a download loading it calls self.on_pause_click(), an attribute the
\* class does not define: AttributeError escapes the callback before anything
\* is toggled.
handle_pause_action ==
    /\ clock # <<>>
    /\ Head(clock).fn = "_handle_pause_action"
    /\ IF ~is_loading
       THEN clock' = Tail(clock)
       ELSE clock' = <<Ev("AttributeError", Zero, "on_pause_click", 0)>>
                         \o Tail(clock)
    /\ UNCHANGED <<ui_props, inst_vars, android, popup_open, timers, worker,
                   parts, hist, budget>>

\* on_new_intent with action org.ytdl.ytdlapp.PAUSE, on the Android thread.
on_new_intent_pause ==
    /\ Running
    /\ android
    /\ budget.intents > 0
    /\ clock' = Schedule(clock, <<Ev("_handle_pause_action", Zero, "", 0)>>)
    /\ budget' = [budget EXCEPT !.intents = @ - 1]
    /\ UNCHANGED <<ui_props, inst_vars, android, popup_open, timers, worker,
                   parts, hist>>

\* The files glob.glob returns to _cleanup_part_files: the matching names in
\* _current_output_path (none when the path is unset, line 1068).
Globbed ==
    IF current_output_path = NoDir
    THEN {}
    ELSE {f \in parts : f[1] = current_output_path /\ Matches(f[3])}

\* The orders in which the loops of lines 1077-1078 can visit the files S.
Orders(S) ==
    {o \in [1..Cardinality(S) -> S] :
        \A i, j \in 1..Cardinality(S) : o[i] = o[j] => i = j}

\* The loops of _cleanup_part_files with no try around os.remove: the first
\* failing deletion ends the scan (the outer except prints the error).
RECURSIVE RemoveUntilFailure(_, _, _)
RemoveUntilFailure(order, failed, disk) ==
    IF order = <<>> THEN disk
    ELSE IF Head(order) \in failed THEN disk
    ELSE RemoveUntilFailure(Tail(order), failed, disk \ {Head(order)})

\* The loops of _cleanup_part_files over the files in order: os.remove on
\* each; a deletion that fails is caught (line 1083) and the scan goes on.
RECURSIVE RemoveEach(_, _, _)
RemoveEach(order, failed, disk) ==
    IF order = <<>> THEN disk
    ELSE IF Head(order) \in failed
    THEN RemoveEach(Tail(order), failed, disk)
    ELSE RemoveEach(Tail(order), failed, disk \ {Head(order)})

\* One run of _cleanup_part_files in which os.remove fails for the files in
\* failed and the files are visited in the given order.
cleanup_run(failed, order) ==
    /\ Running
    /\ timers.cleanup > 0
    /\ timers' = [timers EXCEPT !.cleanup = @ - 1]
    /\ parts' = RemoveEach(order, failed, parts)
    /\ UNCHANGED <<ui_props, inst_vars, android, popup_open, clock, worker,
                   hist, budget>>

\* _cleanup_part_files, run by its 1.5 s timer: every partial file in
\* _current_output_path is removed, except those whose os.remove fails.
cleanup_part_files ==
    \E failed \in SUBSET Globbed : \E order \in Orders(Globbed) :
        cleanup_run(failed, order)

\* clear_success, run by its 7 s timer.
clear_success ==
    /\ Running
    /\ timers.clear_success > 0
    /\ timers' = [timers EXCEPT !.clear_success = @ - 1]
    /\ success_message' = ""
    /\ UNCHANGED <<url_text, quality_selected, audio_only, is_loading, is_paused,
                   error_message, download_progress, current_item, total_items,
                   download_size, inst_vars, android, popup_open, clock, worker,
                   parts, hist, budget>>


\* ------------------------------------------- worker thread: download_video
\* What a step of download_video writes when the thread sets a UI property
\* itself (self.download_progress = 100) instead of scheduling the write.
WorkerFrameDirectWrite ==
    /\ download_progress' = Hundred
    /\ UNCHANGED <<url_text, quality_selected, audio_only, is_loading,
                   is_paused, error_message, success_message, current_item,
                   total_items, download_size>>
    /\ UNCHANGED <<pause_event, cancel_flag, android, popup_open, timers>>

\* What no step of download_video or progress_hook writes.
WorkerFrame ==
    UNCHANGED <<ui_props, pause_event, cancel_flag, android, popup_open,
                timers>>

\* The thread ends: its locals are gone, and so is the record of the inputs it
\* was started with.
Finish(w) ==
    /\ worker' = [worker EXCEPT ![w] = DoneWorker]
    /\ hist' = [hist EXCEPT ![w] = [NoHist EXCEPT !.cancel = hist[w].cancel]]

\* except yt_dlp.utils.DownloadCancelled
RaiseCancelled(w) ==
    /\ postprocessing' = FALSE
    /\ Finish(w)
    /\ UNCHANGED <<current_output_path, pending_shared_url, last_total, clock, parts>>

\* download_video without its except DownloadError / except Exception clauses:
\* the exception ends the thread and nothing is scheduled.
RaiseUncaught(w, user_msg) ==
    /\ Finish(w)
    /\ UNCHANGED <<postprocessing, clock, current_output_path, pending_shared_url, last_total, parts>>

\* except yt_dlp.utils.DownloadError / except Exception: both return silently
\* when the cancel flag is set and schedule on_download_error otherwise.
RaiseError(w, user_msg) ==
    /\ Finish(w)
    /\ IF cancel_flag
       THEN UNCHANGED <<postprocessing, clock>>
       ELSE /\ postprocessing' = FALSE
            /\ clock' = Schedule(clock, <<Ev("on_download_error", Zero, user_msg, w)>>)
    /\ UNCHANGED <<current_output_path, pending_shared_url, last_total, parts>>

\* The exception the try block of progress_hook raises on sample d, "" when it
\* raises none: d['status'] on a dictionary without that key (line 1175);
\* downloaded / total with downloaded None (line 1183); and, with the total
\* unknown, downloaded > 0 with downloaded None, which line 1191 evaluates
\* only when the notification helper exists.
HookError(d) ==
    IF "status" \notin DOMAIN d THEN "KeyError: 'status'"
    ELSE IF /\ d.status = "downloading"
            /\ "none" \in DOMAIN d
            /\ (TotalOf(d) # 0 \/ android)
    THEN "TypeError: unsupported operand"
    ELSE ""

\* The try block of progress_hook with its except clauses, without
\* except Exception: an exception of the block leaves the hook, goes through
\* ydl.download and reaches except Exception of download_video.
HandleSamplePropagates(w, d) ==
    IF HookError(d) # ""
    THEN /\ Finish(w)
         /\ postprocessing' = FALSE
         /\ clock' = Schedule(clock, <<Ev("on_download_error", Zero, HookError(d), w)>>)
         /\ UNCHANGED <<current_output_path, pending_shared_url, last_total>>
    ELSE /\ clock' = Schedule(clock, HookEvents(d, w))
         /\ last_total' = IF d.status = "downloading" /\ TotalOf(d) # 0
                          THEN TotalOf(d) ELSE last_total
         /\ worker' = [worker EXCEPT ![w].pc = "downloading", ![w].d = 0]
         /\ UNCHANGED <<current_output_path, pending_shared_url, postprocessing, hist>>

\* The try block of progress_hook with its except clauses: the sample is
\* turned into scheduled UI updates and _last_total is kept; an exception of
\* the block is caught by except Exception and only printed. Either way the
\* hook returns to the engine.
HandleSample(w, d) ==
    /\ IF HookError(d) # ""
       THEN UNCHANGED <<clock, last_total>>
       ELSE /\ clock' = Schedule(clock, HookEvents(d, w))
            /\ last_total' = IF d.status = "downloading" /\ TotalOf(d) # 0
                             THEN TotalOf(d) ELSE last_total
    /\ worker' = [worker EXCEPT ![w].pc = "downloading", ![w].d = 0]
    /\ UNCHANGED <<current_output_path, pending_shared_url, postprocessing, hist>>

\* progress_hook leaves the pause loop and handles the sample it was called with.
ForwardSample(w, d) ==
    /\ HandleSample(w, d)
    /\ UNCHANGED parts

\* The callback the playlist test of line 1260 schedules.
PlaylistNotice(url, w) ==
    IF is_playlist(url)
    THEN <<Ev("success_message", Zero, "Downloading playlist...", w)>>
    ELSE <<>>

\* download_video from its first line to the call of
\* ydl.extract_info(self.url_text, download=False): output_path and
\* _current_output_path are set from audio_only, ydl_opts is built from
\* url_text, audio_only and quality_selected, and the engine is called.
Begin(w) ==
    /\ Running
    /\ worker[w].pc = "begin"
    /\ LET output_path == IF audio_only THEN AudioDir ELSE VideoDir IN
        /\ current_output_path' = output_path
        /\ worker' = [worker EXCEPT ![w].pc = "extracting",
                                    ![w].output_path = output_path,
                                    ![w].url = url_text]
    /\ clock' = Schedule(clock, PlaylistNotice(url_text, w))
    /\ WorkerFrame
    /\ UNCHANGED budget
    /\ UNCHANGED <<postprocessing, last_total, pending_shared_url, parts, hist>>

\* The same lines when get_ffmpeg_bin() raises RuntimeError (audio mode on a
\* desktop without ffmpeg): except RuntimeError schedules on_download_error
\* without testing the cancel flag.
BeginRuntimeError(w) ==
    /\ Running
    /\ worker[w].pc = "begin"
    /\ audio_only
    /\ ~android
    /\ current_output_path' = AudioDir
    /\ postprocessing' = FALSE
    /\ Finish(w)
    /\ clock' = Schedule(clock, PlaylistNotice(url_text, w)
                    \o <<Ev("on_download_error", Zero, FFMPEG_INSTALL_HELP, w)>>)
    /\ WorkerFrame
    /\ UNCHANGED budget
    /\ UNCHANGED <<last_total, pending_shared_url, parts>>

\* extract_info returns, with the total_items update left out of the lines
\* before ydl.download([self.url_text]).
ExtractReturnNoTotal(w) ==
    /\ Running
    /\ worker[w].pc = "extracting"
    /\ validate_url(worker[w].url)
    /\ IF cancel_flag
       THEN /\ Finish(w)
            /\ UNCHANGED <<clock, postprocessing>>
       ELSE /\ clock' = clock
            /\ postprocessing' = IF ~audio_only /\ android THEN TRUE ELSE postprocessing
            /\ worker' = [worker EXCEPT ![w].pc = "downloading",
                                        ![w].url = url_text]
            /\ UNCHANGED hist
    /\ WorkerFrame
    /\ UNCHANGED budget
    /\ UNCHANGED <<current_output_path, pending_shared_url, last_total, parts>>

\* extract_info returns: the cancel test of line 1313, the total_items update,
\* and the call ydl.download([self.url_text]).
ExtractReturn(w) ==
    /\ Running
    /\ worker[w].pc = "extracting"
    /\ validate_url(worker[w].url)
    /\ IF cancel_flag
       THEN /\ Finish(w)
            /\ UNCHANGED <<clock, postprocessing>>
       ELSE /\ clock' = Schedule(clock,
                  <<Ev("total_items",
                       Frac(IF is_playlist(worker[w].url) THEN 5 ELSE 1, 1),
                       "", w)>>)
            /\ postprocessing' = IF ~audio_only /\ android THEN TRUE ELSE postprocessing
            /\ worker' = [worker EXCEPT ![w].pc = "downloading",
                                        ![w].url = url_text]
            /\ UNCHANGED hist
    /\ WorkerFrame
    /\ UNCHANGED budget
    /\ UNCHANGED <<current_output_path, pending_shared_url, last_total, parts>>

\* extract_info raises (DownloadError or another exception).
ExtractError(w, msg) ==
    /\ Running
    /\ worker[w].pc = "extracting"
    /\ RaiseError(w, UserMsg(msg))
    /\ WorkerFrame
    /\ UNCHANGED budget

\* The engine, inside ydl.download, writes to its partial file and calls
\* progress_hook(d). The hook tests the cancel flag (line 1162), then the
\* pause gate (line 1167): with the gate open it handles the sample and
\* returns; with the gate closed it tests the cancel flag again (line 1168)
\* and blocks in self._pause_event.wait(timeout=0.2).
EngineTick(w, i) ==
    /\ Running
    /\ worker[w].pc = "downloading"
    /\ budget.ticks > 0
    /\ budget' = [budget EXCEPT !.ticks = @ - 1]
    /\ validate_url(worker[w].url)
    /\ IF cancel_flag
       THEN /\ postprocessing' = FALSE
            /\ Finish(w)
            /\ UNCHANGED <<current_output_path, pending_shared_url, last_total, clock>>
       ELSE IF pause_event
       THEN HandleSample(w, Samples[i])
       ELSE /\ worker' = [worker EXCEPT ![w].pc = "hook_wait", ![w].d = i]
            /\ UNCHANGED <<current_output_path, pending_shared_url, postprocessing, last_total,
                           clock, hist>>
    /\ parts' = parts \cup {PartFile(worker[w].output_path, w)}
    /\ WorkerFrame

\* progress_hook, the pause loop with the 0.2 s timeout of wait() taken for
\* the release of the gate: the sample is handled whether or not the event is
\* set.
HookWaitTimeout(w) ==
    /\ Running
    /\ worker[w].pc = "hook_wait"
    /\ IF cancel_flag /\ ~pause_event
       THEN RaiseCancelled(w)
       ELSE ForwardSample(w, Samples[worker[w].d])
    /\ WorkerFrame
    /\ UNCHANGED budget

\* progress_hook, the pause loop: wait() returns (the event set, or the 0.2 s
\* over) and the loop condition of line 1167 is evaluated again. With the gate
\* open the loop ends and the sample is handled; with the gate still closed the
\* body tests the cancel flag (line 1168) and waits again.
HookWait(w) ==
    /\ Running
    /\ worker[w].pc = "hook_wait"
    /\ IF pause_event
       THEN ForwardSample(w, Samples[worker[w].d])
       ELSE IF cancel_flag
       THEN RaiseCancelled(w)
       ELSE UNCHANGED <<worker, current_output_path, pending_shared_url, postprocessing,
                        last_total, clock, parts, hist>>
    /\ WorkerFrame
    /\ UNCHANGED budget

\* ydl.download returns: the partial file has become the final file,
\* _postprocessing is cleared and line 1344 tests the cancel flag.
EngineFinish(w) ==
    /\ Running
    /\ worker[w].pc = "downloading"
    /\ validate_url(worker[w].url)
    /\ parts' = parts \ {PartFile(worker[w].output_path, w)}
    /\ postprocessing' = FALSE
    /\ IF cancel_flag
       THEN Finish(w)
       ELSE /\ worker' = [worker EXCEPT ![w].pc = "notify"]
            /\ UNCHANGED hist
    /\ WorkerFrame
    /\ UNCHANGED budget
    /\ UNCHANGED <<current_output_path, pending_shared_url, last_total, clock>>

\* ydl.download raises (DownloadError or another exception).
EngineError(w, msg) ==
    /\ Running
    /\ worker[w].pc = "downloading"
    /\ RaiseError(w, UserMsg(msg))
    /\ WorkerFrame
    /\ UNCHANGED budget

\* lines 1347-1363: Clock.schedule_once(lambda dt: self.on_download_success(), 0)
Notify(w) ==
    /\ Running
    /\ worker[w].pc = "notify"
    /\ postprocessing' = FALSE
    /\ clock' = Schedule(clock, <<Ev("on_download_success", Zero, "", w)>>)
    /\ Finish(w)
    /\ WorkerFrame
    /\ UNCHANGED budget
    /\ UNCHANGED <<current_output_path, pending_shared_url, last_total, parts>>

\* ------------------------------------------- UI thread: Clock callbacks
\* What a scheduled setattr(self, <property>, value) leaves alone.
SetattrFrame ==
    UNCHANGED <<inst_vars, android, popup_open, timers, worker, parts, hist,
                budget>>

\* lambda dt: setattr(self, 'download_progress', percent)
set_download_progress ==
    /\ clock # <<>>
    /\ Head(clock).fn = "download_progress"
    /\ clock' = Tail(clock)
    /\ download_progress' = Head(clock).n
    /\ SetattrFrame
    /\ UNCHANGED <<url_text, quality_selected, audio_only, is_loading, is_paused,
                   error_message, success_message, current_item, total_items,
                   download_size>>

\* lambda dt, s=size_str: setattr(self, 'download_size', s)
set_download_size ==
    /\ clock # <<>>
    /\ Head(clock).fn = "download_size"
    /\ clock' = Tail(clock)
    /\ download_size' = Head(clock).s
    /\ SetattrFrame
    /\ UNCHANGED <<url_text, quality_selected, audio_only, is_loading, is_paused,
                   error_message, success_message, download_progress,
                   current_item, total_items>>

\* lambda dt, n=short_name: setattr(self, 'current_item', n)
set_current_item ==
    /\ clock # <<>>
    /\ Head(clock).fn = "current_item"
    /\ clock' = Tail(clock)
    /\ current_item' = Head(clock).s
    /\ SetattrFrame
    /\ UNCHANGED <<url_text, quality_selected, audio_only, is_loading, is_paused,
                   error_message, success_message, download_progress,
                   total_items, download_size>>

\* lambda dt: setattr(self, 'total_items', total)
set_total_items ==
    /\ clock # <<>>
    /\ Head(clock).fn = "total_items"
    /\ clock' = Tail(clock)
    /\ total_items' = Head(clock).n.n
    /\ SetattrFrame
    /\ UNCHANGED <<url_text, quality_selected, audio_only, is_loading, is_paused,
                   error_message, success_message, download_progress,
                   current_item, download_size>>

\* lambda dt: setattr(self, 'success_message', 'Downloading playlist...')
set_success_message ==
    /\ clock # <<>>
    /\ Head(clock).fn = "success_message"
    /\ clock' = Tail(clock)
    /\ success_message' = Head(clock).s
    /\ SetattrFrame
    /\ UNCHANGED <<url_text, quality_selected, audio_only, is_loading, is_paused,
                   error_message, download_progress, current_item, total_items,
                   download_size>>

\* on_download_success with the assignment self.download_progress = 0 left out.
on_download_success_keeps_progress ==
    /\ clock # <<>>
    /\ Head(clock).fn = "on_download_success"
    /\ clock' = Tail(clock)
    /\ is_loading' = FALSE
    /\ is_paused' = FALSE
    /\ error_message' = ""
    /\ success_message' =
          LET folder == IF audio_only THEN "Audio" ELSE "Video" IN
          IF total_items > 1
          THEN NatStr(total_items) \o " items downloaded to " \o folder \o " folder"
          ELSE folder \o " downloaded to " \o folder \o " folder"
    /\ url_text' = NoUrl
    /\ download_size' = ""
    /\ current_item' = ""
    /\ timers' = [timers EXCEPT !.clear_success = @ + 1]
    /\ UNCHANGED <<quality_selected, audio_only, download_progress, total_items,
                   inst_vars, android, popup_open, worker, parts, hist, budget>>

\* on_download_success
on_download_success ==
    /\ clock # <<>>
    /\ Head(clock).fn = "on_download_success"
    /\ clock' = Tail(clock)
    /\ is_loading' = FALSE
    /\ is_paused' = FALSE
    /\ error_message' = ""
    /\ success_message' =
          LET folder == IF audio_only THEN "Audio" ELSE "Video" IN
          IF total_items > 1
          THEN NatStr(total_items) \o " items downloaded to " \o folder \o " folder"
          ELSE folder \o " downloaded to " \o folder \o " folder"
    /\ url_text' = NoUrl
    /\ download_progress' = Zero
    /\ download_size' = ""
    /\ current_item' = ""
    /\ timers' = [timers EXCEPT !.clear_success = @ + 1]
    /\ UNCHANGED hist
    /\ UNCHANGED <<quality_selected, audio_only, total_items, inst_vars, android,
                   popup_open, worker, parts, budget>>

\* on_download_error(error)
on_download_error ==
    /\ clock # <<>>
    /\ Head(clock).fn = "on_download_error"
    /\ clock' = Tail(clock)
    /\ is_loading' = FALSE
    /\ is_paused' = FALSE
    /\ error_message' = Head(clock).s
    /\ success_message' = ""
    /\ download_progress' = Zero
    /\ download_size' = ""
    /\ UNCHANGED hist
    /\ UNCHANGED <<url_text, quality_selected, audio_only, current_item,
                   total_items, inst_vars, android, popup_open, timers, worker,
                   parts, budget>>

\* ------------------------------------------------------- specification
UIStep ==
    \/ \E text \in budget.texts : on_url_change(text)
    \/ \E quality \in Qualities : on_quality_select(quality)
    \/ \E active \in BOOLEAN : on_audio_toggle(active)
    \/ start_download_invalid
    \/ start_download_valid
    \/ on_pause_resume_click
    \/ on_cancel_click
    \/ popup_no
    \/ confirm_cancel
    \/ on_new_intent_cancel
    \/ on_new_intent_pause

ClockStep ==
    \/ handle_cancel_action
    \/ handle_pause_action
    \/ cleanup_part_files
    \/ clear_success
    \/ set_download_progress
    \/ set_download_size
    \/ set_current_item
    \/ set_total_items
    \/ set_success_message
    \/ on_download_success
    \/ on_download_error

WorkerStep(w) ==
    \/ Begin(w)
    \/ BeginRuntimeError(w)
    \/ ExtractReturn(w)
    \/ \E msg \in EngineErrors(w) : ExtractError(w, msg)
    \/ \E i \in budget.samples : EngineTick(w, i)
    \/ HookWait(w)
    \/ EngineFinish(w)
    \/ \E msg \in EngineErrors(w) : EngineError(w, msg)
    \/ Notify(w)

Next == UIStep \/ ClockStep \/ \E w \in Workers : WorkerStep(w)

Spec == Init /\ [][Next]_vars

\* ------------------------------- progress_hook on the samples of an engine
\* Calls of progress_hook whose callbacks the Clock queue may hold before the
\* UI thread runs them.
MaxPending == 1

\* downloaded_bytes of the samples: the unit boundaries of format_size and
\* values next to them.
ByteCounts ==
    {0, 1, 1023, 1024, 512000, 1048575, 1048576, 1073741823, 1073741824}

\* The dictionaries the engine passes to progress_hook: the total known, known
\* only as an estimate (which the transfer can exceed), or unknown.
RawSamples ==
    {[status |-> "downloading", downloaded_bytes |-> b,
      total_bytes |-> 0, total_bytes_estimate |-> 0,
      filename |-> "clip.mp4"] : b \in ByteCounts}
    \cup
    {[status |-> "downloading", downloaded_bytes |-> b,
      total_bytes |-> t, total_bytes_estimate |-> e,
      filename |-> "clip.mp4"] :
         b \in {0, 512000, 1048576}, t \in {0, 1048576}, e \in {0, 512000}}
    \cup
    {[status |-> "finished", downloaded_bytes |-> 1048576,
      total_bytes |-> 1048576, total_bytes_estimate |-> 0,
      filename |-> "clip.mp4"]}
    \cup
    \* downloaded_bytes present with the value None (the key none marks it):
    \* falsy like 0, but not comparable with a number
    {[status |-> "downloading", downloaded_bytes |-> 0, none |-> TRUE,
      total_bytes |-> 0, total_bytes_estimate |-> 0,
      filename |-> "clip.mp4"]}

\* A session in its download phase: the URL was entered, start_download ran,
\* download_video passed extract_info and called ydl.download([self.url_text]),
\* and the total_items update was applied.
HookInit ==
    /\ url_text = VideoUrl
    /\ quality_selected = "max"
    /\ audio_only = FALSE
    /\ is_loading = TRUE
    /\ is_paused = FALSE
    /\ error_message = ""
    /\ success_message = ""
    /\ download_progress = Zero
    /\ current_item = ""
    /\ total_items = 1
    /\ download_size = ""
    /\ pause_event = TRUE
    /\ cancel_flag = FALSE
    /\ current_output_path = VideoDir
    /\ pending_shared_url = "none"
    /\ android \in BOOLEAN
    /\ postprocessing = android
    /\ last_total = 0
    /\ popup_open = FALSE
    /\ clock = <<>>
    /\ timers = [cleanup |-> 0, clear_success |-> 0,
                 read_intent |-> 0]
    /\ worker = [w \in Workers |->
                    IF w = 1
                    THEN [pc |-> "downloading", output_path |-> VideoDir,
                          url |-> VideoUrl, d |-> 0]
                    ELSE IdleWorker]
    /\ parts = {}
    /\ hist = [w \in Workers |->
                  IF w = 1
                  THEN [NoHist EXCEPT !.url = VideoUrl, !.quality = "max"]
                  ELSE NoHist]
    /\ budget = [starts |-> 0, ticks |-> 0, urls |-> 0, toggles |-> 0,
                 pauses |-> 0, popups |-> 0, intents |-> 0, texts |-> {},
                 samples |-> {}, errors |-> {}]

\* progress_hook(d), called by the engine in thread w with the session neither
\* cancelled (line 1162) nor paused (line 1167).
progress_hook(w, d) ==
    /\ worker[w].pc = "downloading"
    /\ ~cancel_flag
    /\ pause_event
    /\ Len(clock) < MaxPending
    /\ HandleSample(w, d)
    /\ parts' = parts \cup {PartFile(worker[w].output_path, w)}
    /\ WorkerFrame
    /\ UNCHANGED budget

HookNext ==
    \/ \E w \in Workers : \E d \in RawSamples : progress_hook(w, d)
    \/ set_download_progress
    \/ set_download_size
    \/ set_current_item

HookSpec == HookInit /\ [][HookNext]_vars

\* ------------------------------------ _cleanup_part_files on a folder listing
\* Runs of _cleanup_part_files waiting on their 1.5 s timers.
MaxCleanups == 2

\* Files left in the download folders by earlier runs of the application.
Leftovers == {<<dir, 0, name>> : dir \in {AudioDir, VideoDir}, name \in FileNames}

\* The application after cancelled sessions: every thread has ended, the
\* cancel handlers have reset the UI and scheduled _cleanup_part_files, and
\* the folders hold any files. _current_output_path is the folder of the last
\* thread, or unset when Cancel was confirmed with no session ever started.
CleanupInit ==
    /\ url_text = NoUrl
    /\ quality_selected = "max"
    /\ audio_only = FALSE
    /\ is_loading = FALSE
    /\ is_paused = FALSE
    /\ error_message = ""
    /\ success_message = ""
    /\ download_progress = Zero
    /\ current_item = ""
    /\ total_items = 0
    /\ download_size = ""
    /\ pause_event = TRUE
    /\ cancel_flag = TRUE
    /\ current_output_path \in {NoDir, AudioDir, VideoDir}
    /\ pending_shared_url = "none"
    /\ postprocessing = FALSE
    /\ last_total = 0
    /\ android = FALSE
    /\ popup_open = FALSE
    /\ clock = <<>>
    /\ timers = [cleanup |-> MaxCleanups, clear_success |-> 0,
                 read_intent |-> 0]
    /\ worker = [w \in Workers |->
                    IF w = 1 /\ current_output_path # NoDir
                    THEN DoneWorker ELSE IdleWorker]
    /\ parts \in SUBSET Leftovers
    /\ hist = [w \in Workers |->
                  IF w = 1 /\ current_output_path # NoDir
                  THEN [NoHist EXCEPT !.cancel = "yes"] ELSE NoHist]
    /\ budget = [starts |-> 0, ticks |-> 0, urls |-> 0, toggles |-> 0,
                 pauses |-> 0, popups |-> 0, intents |-> 0, texts |-> {},
                 samples |-> {}, errors |-> {}]

CleanupNext == cleanup_part_files

CleanupSpec == CleanupInit /\ [][CleanupNext]_vars

\* --------------------------------------------- share intents and the URL field
\* Share intents Android delivers to the running app in one run.
MaxShares == 2

\* The text a share carries (EXTRA_TEXT).
SharedTexts == {"", BadUrl, "Watch https://youtu.be/abc123 now", PlaylistUrl}

\* The intents of the model: the launcher's, and text/plain shares.
Intents ==
    {[action |-> "MAIN", text |-> ""]}
        \cup {[action |-> "SEND", text |-> t] : t \in SharedTexts}

\* re.search(pattern, shared_text).group(0) when the text holds a watch or
\* youtu.be URL, else shared_text.strip(), for the texts of the model.
SharedUrl(text) ==
    CASE text = "Watch https://youtu.be/abc123 now" -> VideoUrl
      [] OTHER -> text

\* The URL _read_intent and on_new_intent hand to the UI thread for an intent,
\* "none" when they ignore it (not a share, empty text, URL rejected).
AcceptedUrl(intent) ==
    IF /\ intent.action = "SEND"
       /\ intent.text # ""
       /\ validate_url(SharedUrl(intent.text))
    THEN SharedUrl(intent.text)
    ELSE "none"

\* The app right after YouTubeDownloader() on Android. Kivy dispatched
\* on_kv_post inside super().__init__(): _pending_shared_url was still None,
\* nothing was flushed, and _read_intent was scheduled in 0.5 s.
ShareInit ==
    /\ url_text = NoUrl
    /\ quality_selected = "max"
    /\ audio_only = FALSE
    /\ is_loading = FALSE
    /\ is_paused = FALSE
    /\ error_message = ""
    /\ success_message = ""
    /\ download_progress = Zero
    /\ current_item = ""
    /\ total_items = 0
    /\ download_size = ""
    /\ pause_event = TRUE
    /\ cancel_flag = FALSE
    /\ current_output_path = NoDir
    /\ pending_shared_url = "none"
    /\ postprocessing = FALSE
    /\ last_total = 0
    /\ android = TRUE
    /\ popup_open = FALSE
    /\ clock = <<>>
    /\ timers = [cleanup |-> 0, clear_success |-> 0, read_intent |-> 1]
    /\ worker = [w \in Workers |-> IdleWorker]
    /\ parts = {}
    /\ hist = [w \in Workers |-> NoHist]
    /\ budget = [starts |-> 1, ticks |-> 0, urls |-> 1, toggles |-> 0,
                 pauses |-> 0, popups |-> 0, intents |-> MaxShares,
                 texts |-> {BadUrl, VideoUrl}, samples |-> {}, errors |-> {}]

\* _read_intent, run by its 0.5 s timer: a valid shared URL of the activity's
\* intent goes to _apply_url, which schedules _write_url_to_field.
read_intent ==
    /\ Running
    /\ timers.read_intent > 0
    /\ timers' = [timers EXCEPT !.read_intent = @ - 1]
    /\ \E intent \in Intents :
        IF AcceptedUrl(intent) = "none"
        THEN UNCHANGED clock
        ELSE clock' = Schedule(clock,
                 <<Ev("_write_url_to_field", Zero, AcceptedUrl(intent), 0)>>)
    /\ UNCHANGED <<ui_props, inst_vars, android, popup_open, worker, parts,
                   hist, budget>>

\* on_new_intent with a share, on the Android thread: a valid URL is handed to
\* _on_new_intent_kivy_thread through the Clock.
on_new_intent_share(intent) ==
    /\ Running
    /\ android
    /\ budget.intents > 0
    /\ budget' = [budget EXCEPT !.intents = @ - 1]
    /\ IF AcceptedUrl(intent) = "none"
       THEN UNCHANGED clock
       ELSE clock' = Schedule(clock,
                <<Ev("_on_new_intent_kivy_thread", Zero, AcceptedUrl(intent),
                     0)>>)
    /\ UNCHANGED <<ui_props, inst_vars, android, popup_open, timers, worker,
                   parts, hist>>

\* The body of _write_url_to_field(url). When self.ids.url_input is there the
\* URL is written and both messages are cleared; when the lookup raises,
\* nothing is written and the except branch buffers the URL.
WriteUrl(url, field_ok) ==
    IF field_ok
    THEN /\ url_text' = url
         /\ error_message' = ""
         /\ success_message' = ""
         /\ UNCHANGED pending_shared_url
    ELSE /\ pending_shared_url' = url
         /\ UNCHANGED <<url_text, error_message, success_message>>

\* _write_url_to_field scheduled by _apply_url, run by the Clock.
write_url_to_field ==
    /\ clock # <<>>
    /\ Head(clock).fn = "_write_url_to_field"
    /\ clock' = Tail(clock)
    /\ \E field_ok \in BOOLEAN : WriteUrl(Head(clock).s, field_ok)
    /\ UNCHANGED <<quality_selected, audio_only, is_loading, is_paused,
                   download_progress, current_item, total_items, download_size,
                   pause_event, cancel_flag, current_output_path,
                   postprocessing, last_total, android, popup_open, timers,
                   worker, parts, hist, budget>>

\* _on_new_intent_kivy_thread(url), run by the Clock: the field and the
\* messages are cleared, then _write_url_to_field(url) is called. When
\* self.ids.url_input raises, url_text was already set to '' (line 725), the
\* messages keep their text and the URL is buffered.
on_new_intent_kivy_thread ==
    /\ clock # <<>>
    /\ Head(clock).fn = "_on_new_intent_kivy_thread"
    /\ clock' = Tail(clock)
    /\ \E field_ok \in BOOLEAN :
        IF field_ok
        THEN WriteUrl(Head(clock).s, TRUE)
        ELSE /\ url_text' = NoUrl
             /\ pending_shared_url' = Head(clock).s
             /\ UNCHANGED <<error_message, success_message>>
    /\ UNCHANGED <<quality_selected, audio_only, is_loading, is_paused,
                   download_progress, current_item, total_items, download_size,
                   pause_event, cancel_flag, current_output_path,
                   postprocessing, last_total, android, popup_open, timers,
                   worker, parts, hist, budget>>

ShareNext ==
    \/ read_intent
    \/ \E intent \in Intents : on_new_intent_share(intent)
    \/ write_url_to_field
    \/ on_new_intent_kivy_thread
    \/ \E text \in budget.texts : on_url_change(text)
    \/ start_download_invalid

\* The Clock runs every callback it was given.
ShareSpec ==
    /\ ShareInit
    /\ [][ShareNext]_vars
    /\ WF_vars(read_intent)
    /\ WF_vars(write_url_to_field)
    /\ WF_vars(on_new_intent_kivy_thread)

\* ------------------------------------------------- sessions under fairness
\* The scheduling the program relies on: the Clock runs the callbacks it was
\* given, and a download_video thread that can take a step takes one (the
\* engine call it is in returns, reports or raises).
\* The runs followed to their end. Two sessions started one after the other;
\* one session with a pause, a cancel, a notification action and an engine
\* error.
FairRestart ==
    [android |-> FALSE, starts |-> MaxStarts, ticks |-> MaxTicks - 1,
     urls |-> MaxUrlEdits - 1, toggles |-> MaxToggles - 1,
     pauses |-> MaxPauseClicks, popups |-> MaxPopups - 2, intents |-> 0,
     texts |-> {VideoUrl}, samples |-> {1}, errors |-> {}]

FairSession(a) ==
    [android |-> a, starts |-> MaxStarts - 1, ticks |-> MaxTicks - 1,
     urls |-> MaxUrlEdits - 1, toggles |-> MaxToggles,
     pauses |-> MaxPauseClicks, popups |-> MaxPopups - 1,
     intents |-> IF a THEN MaxIntents ELSE 0,
     texts |-> {VideoUrl}, samples |-> {1}, errors |-> DownloadErrors]

\* One playlist session without user interference.
FairPlaylist ==
    [android |-> FALSE, starts |-> MaxStarts - 1, ticks |-> MaxTicks - 1,
     urls |-> MaxUrlEdits - 1, toggles |-> MaxToggles - 1,
     pauses |-> MaxPauseClicks - 1, popups |-> MaxPopups - 2, intents |-> 0,
     texts |-> {PlaylistUrl}, samples |-> {2}, errors |-> {}]

FairRuns ==
    {FairRestart, FairPlaylist} \cup {FairSession(a) : a \in BOOLEAN}

\* YouTubeDownloader.__init__, before one of these runs.
FairInit ==
    /\ url_text = NoUrl
    /\ quality_selected = "max"
    /\ audio_only = FALSE
    /\ is_loading = FALSE
    /\ is_paused = FALSE
    /\ error_message = ""
    /\ success_message = ""
    /\ download_progress = Zero
    /\ current_item = ""
    /\ total_items = 0
    /\ download_size = ""
    /\ pause_event = TRUE
    /\ cancel_flag = FALSE
    /\ current_output_path = NoDir
    /\ pending_shared_url = "none"
    /\ postprocessing = FALSE
    /\ last_total = 0
    /\ \E run \in FairRuns :
        /\ android = run.android
        /\ budget = [k \in DOMAIN run \ {"android"} |-> run[k]]
    /\ popup_open = FALSE
    /\ clock = <<>>
    /\ timers = [cleanup |-> 0, clear_success |-> 0, read_intent |-> 0]
    /\ worker = [w \in Workers |-> IdleWorker]
    /\ parts = {}
    /\ hist = [w \in Workers |-> NoHist]

FairSpec ==
    /\ FairInit
    /\ [][Next]_vars
    /\ WF_vars(ClockStep)
    /\ \A w \in Workers : WF_vars(WorkerStep(w))

\* ------------------------------------------------------------- claims

\* C1: start_download invoked while is_loading is true is rejected: it spawns
\* no worker thread and leaves the running session's cancel flag, pause gate,
\* is_paused, download_progress, download_size and total_items as they were.
C1_StartWhileLoadingRejected ==
    [][(is_loading /\ start_download) =>
          UNCHANGED <<worker, cancel_flag, pause_event, is_paused,
                      download_progress, download_size, total_items>>]_vars

\* C2: once a cancel handler has run for a session, on_download_success is
\* never executed for that session.
C2_NoSuccessAfterCancel ==
    [][on_download_success => hist[Head(clock).w].cancel = "no"]_vars

\* C3: _cleanup_part_files never deletes a partial file while the worker
\* thread that writes it is still alive.
C3_CleanupAfterWorkerExit ==
    [][cleanup_part_files => \A f \in parts \ parts' : ~Alive(f[2])]_vars

\* C4: a worker that was blocked in the pause loop of progress_hook when the
\* cancel handler ran leaves download_video without scheduling
\* on_download_success or on_download_error.
C4_CancelWhilePausedIsSilent ==
    [][\A w \in Workers :
          (hist[w].cancel = "blocked" /\ Alive(w) /\ worker'[w].pc = "done")
              => clock' = clock]_vars

\* C5: for one session the partial-file cleanup is scheduled once: a cancel
\* handler that runs when cancel was already requested since the last Start
\* schedules no further cleanup.
C5_CleanupScheduledOnce ==
    [][((\E w \in Workers : worker[w].pc # "idle")
            /\ timers'.cleanup > timers.cleanup)
          => ~cancel_flag]_vars

\* C6: _confirm_cancel fired while is_loading is false changes no state
\* (cancel flag, pause gate, URL field, messages, progress) and schedules no
\* cleanup.
C6_ConfirmWhenIdleIsNoOp ==
    [][(~is_loading /\ confirm_cancel) =>
          UNCHANGED <<ui_props, inst_vars, clock, timers>>]_vars

\* C7: a progress_hook call that runs while the cancel flag is true, whether
\* it finds the gate open or leaves the pause loop, raises DownloadCancelled
\* (the worker ends) instead of forwarding its sample to the UI.
C7_HookRaisesOnceCancelled ==
    [][\A w \in Workers :
          (cancel_flag /\ (HookWait(w) \/ \E i \in budget.samples : EngineTick(w, i)))
              => (worker'[w].pc = "done" /\ clock' = clock)]_vars

\* C8: at most one download_video thread is alive at any time.
C8_AtMostOneWorker ==
    Cardinality(AliveWorkers) <= 1

\* C9: once a cancel handler has run for a session whose worker is still
\* alive, the cancel flag that worker reads stays true.
C9_CancelFlagMonotonic ==
    \A w \in Workers : (Alive(w) /\ hist[w].cancel # "no") => cancel_flag

\* C10: whenever download_video reads the URL, the audio/video mode or the
\* quality tier, it reads the values that held when start_download validated
\* the URL.
C10_InputsFixedAtStart ==
    [][\A w \in Workers :
          /\ (Begin(w) \/ BeginRuntimeError(w)) =>
                /\ url_text = hist[w].url
                /\ audio_only = hist[w].audio
                /\ (~audio_only => quality_selected = hist[w].quality)
          /\ (ExtractReturn(w) /\ ~cancel_flag) =>
                /\ url_text = hist[w].url
                /\ audio_only = hist[w].audio]_vars

\* C11: a start_download with a valid URL issued while is_loading is false
\* leaves the pause gate open, the cancel flag false, is_loading true,
\* is_paused false, download_progress 0 and total_items 0, and starts exactly
\* one download_video thread.
C11_StartPostconditions ==
    [][(~is_loading /\ start_download_valid) =>
          /\ pause_event' /\ ~cancel_flag' /\ is_loading' /\ ~is_paused'
          /\ download_progress' = Zero
          /\ total_items' = 0
          /\ Cardinality({w \in Workers : worker'[w] # worker[w]}) = 1
          /\ \A w \in Workers :
                worker'[w] # worker[w] =>
                    (worker[w].pc = "idle" /\ worker'[w].pc = "begin")]_vars

\* C11 witness: a session was cancelled and its worker has exited; a new
\* start_download has just cleared the cancel flag and started worker 2.
C11_Witness ==
    /\ worker[1].pc = "done" /\ hist[1].cancel = "yes"
    /\ worker[2].pc = "begin"
    /\ is_loading /\ ~is_paused /\ pause_event /\ ~cancel_flag
    /\ download_progress = Zero /\ total_items = 0

\* C12 as stated: a start_download whose URL fails validation starts no worker
\* and changes nothing but error_message.
C12_InvalidStartOnlySetsError ==
    [][start_download_invalid =>
          UNCHANGED <<url_text, quality_selected, audio_only, is_loading,
                      is_paused, success_message, download_progress,
                      current_item, total_items, download_size, inst_vars,
                      popup_open, clock, timers, worker, parts>>]_vars

\* C12 amended: a start_download whose URL fails validation starts no worker
\* and leaves is_loading, is_paused, the cancel flag, the pause gate and the
\* progress fields unchanged; its effects are the validation error message and
\* the clearing of success_message.
C12_InvalidStartSetsErrorClearsSuccess ==
    [][start_download_invalid =>
          /\ error_message' = "Please enter a valid YouTube URL"
          /\ success_message' = ""
          /\ UNCHANGED <<url_text, quality_selected, audio_only, is_loading,
                         is_paused, download_progress, current_item,
                         total_items, download_size, inst_vars, popup_open,
                         clock, timers, worker, parts>>]_vars

\* C12 witness: a start_download was rejected while a session was running
\* (the URL field was edited to an invalid text after Start).
C12_Witness ==
    /\ error_message = "Please enter a valid YouTube URL"
    /\ ~validate_url(url_text)
    /\ is_loading
    /\ AliveWorkers # {}

\* C13: on_pause_resume_click invoked while is_loading is false changes
\* neither is_paused nor the pause gate.
C13_PauseNoOpWhenNotLoading ==
    [][(~is_loading /\ on_pause_resume_click) =>
          UNCHANGED <<is_paused, pause_event>>]_vars

\* C14: while a session is running (is_loading), no progress update applied
\* by the UI thread lowers download_progress.
C14_PercentNeverDecreases ==
    [][(is_loading /\ set_download_progress) =>
          FracLeq(download_progress, download_progress')]_vars

\* The on_download_error callbacks of worker w waiting in the Clock queue q.
C15_PendingErrors(q, w) ==
    {i \in DOMAIN q : q[i].fn = "on_download_error" /\ q[i].w = w}

\* C15: once a cancel handler has run for a session, its worker never
\* schedules on_download_error, whichever way it ends.
C15_NoErrorAfterCancel ==
    [][\A w \in Workers :
          hist[w].cancel # "no" =>
              Cardinality(C15_PendingErrors(clock', w))
                  <= Cardinality(C15_PendingErrors(clock, w))]_vars

\* C16: on_download_success leaves is_loading and is_paused false,
\* download_progress 0, download_size and current_item empty and a success
\* message set, and no callback of the finished worker is left in the Clock
\* queue to undo that.
C16_SuccessResetsSnapshot ==
    [][on_download_success =>
          /\ ~is_loading' /\ ~is_paused'
          /\ download_progress' = Zero
          /\ download_size' = "" /\ current_item' = ""
          /\ success_message' # ""
          /\ \A i \in DOMAIN clock' : clock'[i].w # Head(clock).w]_vars

\* C16 witness: a session that was never cancelled reported progress and has
\* been completed by on_download_success.
C16_Witness ==
    /\ worker[1].pc = "done" /\ hist[1].cancel = "no"
    /\ last_total # 0
    /\ timers.clear_success > 0
    /\ success_message = "Video downloaded to Video folder"
    /\ ~is_loading /\ ~is_paused /\ download_progress = Zero
    /\ download_size = "" /\ current_item = ""

\* The on_download_success and on_download_error callbacks of worker w waiting
\* in the Clock queue q.
C17_Terminal(q, w) ==
    {i \in DOMAIN q :
        q[i].fn \in {"on_download_success", "on_download_error"} /\ q[i].w = w}

\* C17: a download_video thread of a session that was not cancelled never ends
\* without its one terminal callback: when it ends on an exception it has
\* scheduled on_download_error exactly once (and nothing terminal before), and
\* on_download_error leaves is_loading false and error_message non-empty.
C17_FailureAlwaysReported ==
    [][/\ \A w \in Workers :
             (Alive(w) /\ worker'[w].pc = "done" /\ hist[w].cancel = "no") =>
                 /\ C17_Terminal(clock, w) = {}
                 /\ Cardinality(C17_Terminal(clock', w)) = 1
       /\ on_download_error => (~is_loading' /\ error_message' # "")]_vars

\* C17 witness: the engine raised in a session that was never cancelled, and
\* on_download_error has shown the message.
C17_Witness ==
    /\ worker[1].pc = "done" /\ hist[1].cancel = "no"
    /\ error_message \in {UserMsg(msg) : msg \in AllErrors}
    /\ ~is_loading
    /\ C17_Terminal(clock, 1) = {}

\* C18: a malformed progress sample never aborts the session. Whenever
\* progress_hook handles a sample whose processing raises (and the session is
\* not cancelled), the exception stays inside the hook: the worker is still
\* inside ydl.download afterwards, no callback (in particular no
\* on_download_error) is scheduled, and no UI property changes.
C18_MalformedSampleSwallowed ==
    [][\A w \in Workers : \A i \in DOMAIN Samples :
          (/\ HookError(Samples[i]) # ""
           /\ ~cancel_flag
           /\ EngineTick(w, i) \/ (worker[w].d = i /\ HookWait(w)))
          => /\ worker'[w].pc \in {"downloading", "hook_wait"}
             /\ clock' = clock
             /\ UNCHANGED ui_props
             /\ UNCHANGED <<last_total, postprocessing, timers>>]_vars

\* C18 witness: every progress sample the engine delivered in this session has
\* been handled by the hook, none of them left a callback or a changed field
\* behind (each well-formed sample changes download_progress or download_size),
\* and the worker is still downloading.
C18_Witness ==
    /\ Len(Samples) \in budget.samples /\ budget.ticks = 0
    /\ worker[1].pc = "downloading" /\ hist[1].cancel = "no"
    /\ \A w \in Workers \ {1} : worker[w].pc = "idle"
    /\ is_loading /\ ~is_paused /\ ~cancel_flag
    /\ download_progress = Zero /\ download_size = "" /\ current_item = ""
    /\ last_total = 0 /\ error_message = ""
    /\ \A k \in DOMAIN clock : clock[k].w # 1

\* The scheduled-but-not-yet-run callbacks in the Clock queue that set field fn.
C19_Pending(fn) == {k \in DOMAIN clock : clock[k].fn = fn}

\* C19: UI updates are coalesced: at any time at most one scheduled-but-not-
\* yet-run UI mutation is pending for each of download_progress, download_size
\* and current_item, however many samples the worker produced meanwhile.
C19_UpdatesCoalesced ==
    \A fn \in {"download_progress", "download_size", "current_item"} :
        Cardinality(C19_Pending(fn)) <= 1

\* The callbacks fn of worker w waiting in the Clock queue q.
C20_Pending(q, fn, w) == {k \in DOMAIN q : q[k].fn = fn /\ q[k].w = w}

\* C20: in every session the item total is published before any transfer
\* progress. The thread schedules its total_items update when extract_info
\* has returned and before ydl.download is called, at a moment when it has
\* scheduled no download_progress update yet; its download_progress updates
\* are scheduled only from inside ydl.download and wait behind the total_items
\* update in the Clock queue; so when a download_progress update of a session
\* is applied, no total_items update of that session is still waiting.
C20_TotalBeforeProgress ==
    /\ [](\A w \in Workers :
            \A k \in C20_Pending(clock, "download_progress", w) :
                \A j \in C20_Pending(clock, "total_items", w) : j < k)
    /\ [][\A w \in Workers :
            /\ (worker[w].pc = "extracting" /\ worker'[w].pc = "downloading") =>
                  /\ C20_Pending(clock, "download_progress", w) = {}
                  /\ Cardinality(C20_Pending(clock', "total_items", w)) = 1
            /\ (Cardinality(C20_Pending(clock', "download_progress", w))
                    > Cardinality(C20_Pending(clock, "download_progress", w))) =>
                  worker[w].pc \in {"downloading", "hook_wait"}]_vars
    /\ [][set_download_progress =>
            C20_Pending(clock, "total_items", Head(clock).w) = {}]_vars

\* C20 witness: a playlist session has published its total of 5 items and then
\* a transfer percentage, and is still downloading.
C20_Witness ==
    /\ worker[1].pc = "downloading" /\ is_playlist(worker[1].url)
    /\ hist[1].cancel = "no" /\ is_loading
    /\ total_items = 5
    /\ download_progress = Frac(Samples[1].downloaded_bytes * 100, Samples[1].total_bytes)

\* The callbacks named fn that the step appends to the Clock queue.
C21_Scheduled(fn) ==
    SelectSeq(SubSeq(clock', Len(clock) + 1, Len(clock')),
              LAMBDA e : e.fn = fn)

\* C21: a downloading sample schedules a download_progress update only when
\* its total (total_bytes, else total_bytes_estimate) is known and above 0,
\* and then exactly one, with the value downloaded / total * 100; with the
\* total unknown the hook schedules no download_progress update and the
\* percent on display stays as it was.
C21_PercentOnlyWhenTotalKnown ==
    [][\A w \in Workers : \A d \in RawSamples :
          (d.status = "downloading" /\ progress_hook(w, d)) =>
              /\ download_progress' = download_progress
              /\ LET total == IF d.total_bytes > 0 THEN d.total_bytes
                              ELSE d.total_bytes_estimate
                 IN  IF total > 0
                     THEN /\ Len(C21_Scheduled("download_progress")) = 1
                          /\ C21_Scheduled("download_progress")[1].n
                               = Frac(d.downloaded_bytes * 100, total)
                     ELSE C21_Scheduled("download_progress") = <<>>]_vars

\* C21 witness: the first sample had a total and its percent is on display; a
\* later sample without a total has published its size and left the percent.
C21_Witness ==
    /\ worker[1].pc = "downloading" /\ is_loading
    /\ download_progress = Frac(512000 * 100, 1048576)
    /\ download_size = "1.0 KB"
    /\ clock = <<>>

\* C22: the percent exposed to the UI is always within 0..100, whatever byte
\* counts the engine reports (a transfer can pass its estimated total).
C22_PercentWithinRange ==
    /\ FracLeq(Zero, download_progress)
    /\ FracLeq(download_progress, Hundred)

\* The string the documented thresholds give for the boundary byte counts:
\* '0 KB' up to 0, KB with one decimal below 1024 * 1024, MB with one decimal
\* below 1024 ^ 3, GB with two decimals from there on.
C23_Documented(b) ==
    CASE b = 0 -> "0 KB"
      [] b = 1 -> "0.0 KB"
      [] b = 1023 -> "1.0 KB"
      [] b = 1024 -> "1.0 KB"
      [] b = 512000 -> "500.0 KB"
      [] b = 1048575 -> "1024.0 KB"
      [] b = 1048576 -> "1.0 MB"
      [] b = 1073741823 -> "1024.0 MB"
      [] b = 1073741824 -> "1.00 GB"

C24_Docstring(b) ==
    CASE b = 1024 -> "1.0 KB"
      [] b = 1048576 -> "1.0 MB"
      [] b = 1073741824 -> "1.0 GB"

\* C24: format_size returns the strings of its documentation at the three
\* unit boundaries: a sample of unknown total with 1024, 1048576 or
\* 1073741824 bytes downloaded publishes '1.0 KB', '1.0 MB' or '1.0 GB'.
C24_FormatSizeDocstring ==
    [][\A w \in Workers : \A d \in RawSamples :
          (/\ d.downloaded_bytes \in {1024, 1048576, 1073741824}
           /\ d.status = "downloading" /\ TotalOf(d) = 0
           /\ progress_hook(w, d)) =>
              /\ Len(C21_Scheduled("download_size")) = 1
              /\ C21_Scheduled("download_size")[1].s
                     = C24_Docstring(d.downloaded_bytes)]_vars

\* C25: for a downloading sample with 512000 of 1048576 bytes the hook
\* publishes the percent 48.83 (512000 * 100 / 1048576 rounded to two
\* decimals) and the size string '500.0 KB / 1.0 MB'.
C25_ScenarioPercentAndSize ==
    [][\A w \in Workers : \A d \in RawSamples :
          (/\ d.status = "downloading"
           /\ d.downloaded_bytes = 512000 /\ d.total_bytes = 1048576
           /\ progress_hook(w, d)) =>
              /\ Len(C21_Scheduled("download_progress")) = 1
              /\ C21_Scheduled("download_progress")[1].n = Frac(4883, 100)
              /\ Len(C21_Scheduled("download_size")) = 1
              /\ C21_Scheduled("download_size")[1].s = "500.0 KB / 1.0 MB"]_vars

\* The names a cancelled download leaves behind: *.part, *.ytdl, *.part-Frag*.
C26_Partial(name) ==
    name \in {"clip.mp4.part", "clip.mp4.ytdl", "clip.mp4.part-Frag3"}

\* C26: the cleanup is idempotent: a run of _cleanup_part_files on a folder
\* that holds no matching file (an earlier run cleaned it) deletes nothing and
\* leaves every folder as it is; the run completes like any other (its timer
\* is used up, nothing else changes).
C26_CleanupIdempotent ==
    [][(/\ cleanup_part_files
        /\ \A f \in parts : f[1] = current_output_path => ~C26_Partial(f[3])) =>
          /\ parts' = parts
          /\ timers'.cleanup = timers.cleanup - 1]_vars

\* C26 witness: both runs are over, the folder of the session holds no
\* matching file any more, and the other files of the folders are still there.
C26_Witness ==
    /\ timers.cleanup = 0
    /\ current_output_path = VideoDir
    /\ {f \in parts : f[1] = VideoDir} =
           {<<VideoDir, 0, "clip.mp4">>, <<VideoDir, 0, "notes.txt">>}
    /\ <<AudioDir, 0, PartName>> \in parts

\* C27: a failure to delete one partial file does not stop the cleanup: for
\* every set of matching files, every subset whose deletion fails and every
\* order of the scan, the run removes exactly the matching files whose
\* deletion does not fail, and no other file.
C27_CleanupSkipsFailures ==
    [][\A failed \in SUBSET Globbed : \A order \in Orders(Globbed) :
          cleanup_run(failed, order) =>
              /\ \A f \in parts :
                    (/\ f[1] = current_output_path
                     /\ C26_Partial(f[3])
                     /\ f \notin failed) => f \notin parts'
              /\ \A f \in parts \ parts' :
                    f[1] = current_output_path /\ C26_Partial(f[3])
              /\ parts' \subseteq parts]_vars

\* C27 witness: one run is over; in the session's folder the partial file is
\* still there (the run could not delete it) and no other matching file is
\* left, the finished download and the foreign file are in place, and so is a
\* matching file of the other folder.
C27_Witness ==
    /\ timers.cleanup = MaxCleanups - 1
    /\ current_output_path = AudioDir
    /\ {f \in parts : f[1] = AudioDir} =
           {<<AudioDir, 0, PartName>>, <<AudioDir, 0, "clip.mp4">>,
            <<AudioDir, 0, "notes.txt">>}
    /\ <<VideoDir, 0, "clip.mp4.ytdl">> \in parts

\* The steps of the UI thread: the handlers the widgets call and the callbacks
\* the Clock runs.
C28_UIThread ==
    \/ \E text \in budget.texts : on_url_change(text)
    \/ \E quality \in Qualities : on_quality_select(quality)
    \/ \E active \in BOOLEAN : on_audio_toggle(active)
    \/ start_download
    \/ on_pause_resume_click
    \/ on_cancel_click
    \/ popup_no
    \/ confirm_cancel
    \/ ClockStep

\* C28: every mutation of a UI-observed property is executed on the UI
\* thread. A step of a download_video thread or of on_new_intent (the Android
\* thread) leaves every UI property as it is and takes nothing out of the
\* Clock queue; a step that changes a UI property is a step of the UI thread.
C28_UIPropsOnlyOnUIThread ==
    /\ [][((\E w \in Workers : WorkerStep(w)) \/ on_new_intent_cancel) =>
             /\ UNCHANGED ui_props
             /\ Len(clock') >= Len(clock)
             /\ SubSeq(clock', 1, Len(clock)) = clock]_vars
    /\ [][ui_props' # ui_props => C28_UIThread]_vars

\* C28 witness: the worker has handled a sample and the Android thread has
\* received the Cancel action; both writes are waiting in the Clock queue and
\* the UI still shows the state before them.
C28_Witness ==
    /\ android /\ is_loading /\ ~cancel_flag
    /\ last_total # 0 /\ download_progress = Zero /\ download_size = ""
    /\ \E k \in DOMAIN clock : clock[k].fn = "download_progress"
    /\ \E k \in DOMAIN clock : clock[k].fn = "_handle_cancel_action"

\* C29: the notification helper does not influence the core. Whether or not
\* the helper exists, a call of progress_hook has the effects of the code with
\* every `if self._notification_helper:` block left out: it schedules the
\* same callbacks, keeps _last_total the same way and leaves the worker in the
\* download.
C29_HelperDoesNotInfluence ==
    [][\A w \in Workers : \A d \in RawSamples :
          progress_hook(w, d) =>
              /\ clock' = clock \o HookEvents(d, w)
              /\ last_total' = IF d.status = "downloading" /\ TotalOf(d) # 0
                               THEN TotalOf(d) ELSE last_total
              /\ worker'[w].pc = "downloading"]_vars

\* The fixed messages the except DownloadError clause classifies into (the
\* third, for videos that require login, is not produced by the errors here).
C30_Classified ==
    {"Video is unavailable or private",
     "Selected quality not available for this video"}

\* A message of bounded length: at most 80 characters, which also bounds the
\* exception type followed by at most 60 characters for the types here.
C30_Short(s) == s \in C30_Classified \/ Len(s) <= 80

\* C30: every error message a worker failure hands to on_download_error, and
\* so every message it shows, is a fixed classified message or a truncated
\* summary of bounded length.
C30_ErrorMessagesBounded ==
    /\ \A k \in DOMAIN clock :
           clock[k].fn = "on_download_error" => C30_Short(clock[k].s)
    /\ error_message # "Please enter a valid YouTube URL" =>
           C30_Short(error_message)

\* C31: while the pause gate is closed and no cancel is requested, a worker
\* that has entered progress_hook stays inside it: whatever step is taken, the
\* worker is still waiting in the hook with the same sample afterwards, and no
\* callback of that worker is added to the Clock queue.
C31_PausedWorkerStaysInHook ==
    [][\A w \in Workers :
          (worker[w].pc = "hook_wait" /\ ~pause_event /\ ~cancel_flag) =>
              /\ worker'[w] = worker[w]
              /\ Cardinality({k \in DOMAIN clock' : clock'[k].w = w})
                     <= Cardinality({k \in DOMAIN clock : clock[k].w = w})]_vars

\* C31 witness: the session is paused, the engine has called progress_hook
\* with a sample, and the worker waits in the hook; the sample has reached
\* neither the Clock queue nor the UI.
C31_Witness ==
    /\ worker[1].pc = "hook_wait" /\ worker[1].d = 1
    /\ ~pause_event /\ is_paused /\ ~cancel_flag /\ is_loading
    /\ last_total = 0 /\ download_progress = Zero /\ download_size = ""
    /\ \A k \in DOMAIN clock : clock[k].fn # "download_progress"

\* C32: a session cancelled while its worker is still resolving metadata
\* (before ydl.download is called) never starts the download phase: the
\* worker does not go on from extract_info to ydl.download.
C32_CancelledBeforeDownloadNeverDownloads ==
    [][\A w \in Workers :
          (worker[w].pc \in {"begin", "extracting"} /\ hist[w].cancel # "no") =>
              worker'[w].pc # "downloading"]_vars

\* C33: the notification's PAUSE action, handled while a download is loading,
\* toggles pause/resume as the on-screen button does (is_paused flipped, the
\* pause gate closed when pausing and opened when resuming) and raises no
\* error; handled while nothing is loading, it changes nothing.
C33_PauseActionToggles ==
    [][handle_pause_action =>
          IF is_loading
          THEN /\ is_paused' = ~is_paused
               /\ pause_event' = is_paused
               /\ Running'
          ELSE UNCHANGED <<ui_props, inst_vars>> /\ Running']_vars

\* C34: a shared URL that could not be written to the input field and was
\* buffered in _pending_shared_url does not stay buffered forever: eventually
\* the buffer has been flushed to the input field and is empty again.
C34_BufferedUrlEventuallyWritten ==
    \A u \in Urls :
        (pending_shared_url = u) ~> (pending_shared_url = "none")

\* C35: from a cancel's _reset_download_state until the next Start (the cancel
\* flag is set exactly in between), no progress update of the cancelled
\* session is applied: download_progress is 0, download_size and current_item
\* are empty.
C35_NoProgressAfterCancel ==
    cancel_flag =>
        /\ download_progress = Zero
        /\ download_size = ""
        /\ current_item = ""

\* C36: _cleanup_part_files, scheduled by the cancel of a session, never
\* deletes a partial file that belongs to another session, one that is not
\* cancelled and whose worker is still running.
C36_CleanupSparesOtherSessions ==
    [][(cleanup_part_files /\ \E v \in Workers : hist[v].cancel # "no") =>
          \A f \in parts :
              (Alive(f[2]) /\ hist[f[2]].cancel = "no") => f \in parts']_vars

\* C37: the UI pause state and the pause gate agree: in every state the UI
\* thread leaves behind, is_paused is true exactly when _pause_event is
\* cleared.
C37_PauseStateMatchesGate == is_paused <=> ~pause_event

\* C38: every started session terminates. Provided the UI thread keeps running
\* its callbacks and the session is not left paused forever (is_paused is
\* false again and again), every worker that start_download spawned is
\* eventually followed by a state in which it has exited and is_loading is
\* false.
C38_EverySessionTerminates ==
    \A w \in Workers :
        ([]Running /\ []<>(~is_paused)) =>
            ((worker[w].pc = "begin") ~> (worker[w].pc = "done" /\ ~is_loading))

====
